---- MODULE Spec2Model ----
(***************************************************************************)
(* Model of onposix::PosixDescriptor (src/src/PosixDescriptor.cpp): the    *)
(* blocking transfer loops __read/__write, the synchronous read/write      *)
(* overloads, and the AsyncThread runner (startAsyncOperation / run).       *)
(*                                                                         *)
(* One descriptor, its lock_, its AsyncThread and its fd_ are modelled.     *)
(* Threads are the caller threads and the threads spawned by start().       *)
(* The header PosixDescriptor.hpp (async_read/async_write, the thread and   *)
(* mutex primitives) is not part of the sources: those parts follow the     *)
(* written specification (sections 2, 4.2 and 5).                           *)
(***************************************************************************)
EXTENDS Integers, Sequences, FiniteSets, TLC

\* ------------------------------------------------------------------ bounds
MaxSize   == 2    \* capacity of the Buffer / raw region, largest valid size
MaxCalls  == 2    \* API calls issued in one behaviour (by the caller and handlers)
StreamLen == 3    \* bytes the source behind fd_ delivers before end-of-stream
SinkCap   == 3    \* bytes the sink behind fd_ accepts before ::write returns 0
AlphabetSize == 2 \* distinct byte values of the sequences written to a loopback

\* ------------------------------------------------------ integer types
\* int is 32 bits wide and size_t 64, as on the LP64 Linux targets of the
\* library. The sizes, the value of remaining and the results of the
\* underlying calls of a transfer are counted in units: one byte for the
\* Buffers, the raw region and the string, WideUnit bytes (one cell of the
\* region) for the wide raw region, whose transfers are of 0, 2^30, 2^31 and
\* 3 * 2^30 bytes. The int a call returns and the count a handler gets are
\* in bytes.
IntMax   == 2147483647
IntMin   == -IntMax - 1
WideUnit == 1073741824

\* Conversion to int of the size_t value of units * unit bytes, for values
\* below 2^32 (the return value of __read, __write, read and write; the local
\* n of run()): values above IntMax wrap around, 2^32 less.
ToInt(units, unit) ==
    LET q == IntMax \div unit
        r == IntMax % unit
    IN  IF units <= q THEN units * unit
        ELSE IntMin + (units - q - 1) * unit + (unit - 1 - r)

\* Conversion of an int to size_t (the count parameter of the handlers). The
\* size_t value k * 2^64 + v is written <<k, v>>: a negative int n becomes
\* 2^64 + n.
ToSize(n) == <<IF n < 0 THEN 1 ELSE 0, n>>

\* The cells of the wide region.
WideLen == 3

\* ----------------------------------------------------------------- threads
\* A caller thread, issuing API calls one after the other, and the threads
\* start() creates, one per asynchronous operation (two operations at most in
\* one behaviour); a completion handler may issue one API call of its own, on
\* the thread that runs it. MaxCalls bounds the calls of all threads together.
Callers == {<<"caller", 1>>}
Workers == {<<"worker", 1>>, <<"worker", 2>>}
Threads == Callers \cup Workers

\* ------------------------------------------------------------------ memory
\* Buffer objects (getSize() = capacity), raw regions and the string argument.
Buffers  == {"B", "Z"}
RawPtrs  == {"P"}
Strings  == {"S"}
WidePtrs == {"W"}
Regions  == Buffers \cup RawPtrs \cup Strings \cup WidePtrs
Null     == "null"

getSize(b) == IF b = "Z" THEN 0 ELSE MaxSize

RegionLen(r) ==
    IF r \in Buffers THEN getSize(r)
    ELSE IF r \in WidePtrs THEN WideLen
    ELSE MaxSize

\* The bytes in one unit of the sizes of a transfer to or from region r.
Unit(r) == IF r \in WidePtrs THEN WideUnit ELSE 1

\* Initial contents: every byte of every region and of the source is distinct.
InitByte(r, i) ==
    CASE r = "B" -> 10 + i
      [] r = "P" -> 20 + i
      [] r = "S" -> 30 + i
      [] r = "W" -> 60 + i
      [] OTHER   -> 0

InitMem == [r \in Regions |-> [i \in 1..RegionLen(r) |-> InitByte(r, i)]]

\* enum of AsyncThread::async_operation_
NONE         == "NONE"
READ_BUFFER  == "READ_BUFFER"
READ_VOID    == "READ_VOID"
WRITE_BUFFER == "WRITE_BUFFER"
WRITE_VOID   == "WRITE_VOID"

\* Completion handlers (function pointers of the two shapes): the k-th API
\* call passes a handler of its own, so handlers identify operations.
NullH == <<"null", 0>>
BuffHandler(k) == <<"buff_handler", k>>
VoidHandler(k) == <<"void_handler", k>>

VARIABLES
    lock_,             \* PosixDescriptor::lock_ : TRUE when held
    async_operation_,  \* AsyncThread::async_operation_
    size_,             \* AsyncThread::size_
    buff_handler_,     \* AsyncThread::buff_handler_
    buff_buffer_,      \* AsyncThread::buff_buffer_
    void_handler_,     \* AsyncThread::void_handler_
    void_buffer_,      \* AsyncThread::void_buffer_
    mem,               \* contents of the memory regions
    input,             \* the bytes the source behind fd_ delivers
    rpos,              \* bytes of input already consumed through fd_
    sink,              \* bytes the sink behind fd_ has received
    th,                \* per thread: position and locals
    log,               \* handler invocations, in order
    ncalls             \* API calls issued so far

vars == <<lock_, async_operation_, size_, buff_handler_, buff_buffer_,
          void_handler_, void_buffer_, mem, input, rpos, sink, th, log,
          ncalls>>

runner == <<async_operation_, size_, buff_handler_, buff_buffer_,
            void_handler_, void_buffer_>>

NoThread == <<"none", 0>>

NoJob == [mode |-> NONE, h |-> NullH, tgt |-> Null, size |-> 0, by |-> NoThread]

\* pc       where the thread stands
\* api      the public method it is in ("none" between calls)
\* tgt,size the arguments of the call; remaining: the loop's local
\* start    offset of fd_'s stream when the loop was entered
\* rets     the results of the underlying calls of the current loop
\* outcome  "none", "value" (ret holds the returned int) or "throw"
\* n        run()'s local n
\* aread,ah the read_operation and handler arguments of a pending async start
\* slot,fn  run()'s branch after the tests of lines 110-111 and the handler
\*          it loaded from the slot of that branch
\* job      what was staged when start() spawned this thread, and by whom
Blank(pc0) ==
    [pc |-> pc0, api |-> "none", tgt |-> Null, size |-> 0, remaining |-> 0,
     start |-> 0, rets |-> <<>>, outcome |-> "none", ret |-> 0, n |-> 0,
     aread |-> FALSE, ah |-> NullH, slot |-> "none", fn |-> NullH,
     job |-> NoJob]

\* Where a thread stands once its API call is over: a caller is between
\* calls, a handler returns to run().
Home(t) == IF t \in Callers THEN "idle" ELSE "reset"

Init ==
    /\ lock_ = FALSE
    /\ async_operation_ = NONE
    /\ size_ = 0
    /\ buff_handler_ = NullH
    /\ buff_buffer_ = Null
    /\ void_handler_ = NullH
    /\ void_buffer_ = Null
    /\ mem = InitMem
    /\ input = [i \in 1..StreamLen |-> 40 + i]
    /\ rpos = 0
    /\ sink = <<>>
    /\ th = [t \in Threads |-> IF t \in Callers THEN Blank("idle") ELSE Blank("unborn")]
    /\ log = <<>>
    /\ ncalls = 0

Min(a, b) == IF a < b THEN a ELSE b

\* ------------------------------------------------------- the transfer loops
\* What ::read(fd_, p, len) can return with `avail` bytes left in the source:
\* an error, end-of-stream, or any positive partial count.
ReadResults(len, avail) ==
    {-1} \cup (IF avail = 0 THEN {0} ELSE 1..Min(len, avail))

\* What ::write(fd_, p, len) can return with `room` bytes left in the sink.
WriteResults(len, room) ==
    {-1} \cup (IF room = 0 THEN {0} ELSE 1..Min(len, room))

\* Faulty variant of EnterLoop: the loop body runs before remaining is tested
EnterLoopDoWhile(rec, loop, api, tgt, size, start) ==
    [rec EXCEPT !.pc = loop,
                !.api = api, !.tgt = tgt, !.size = size, !.remaining = size,
                !.start = start, !.rets = <<>>, !.outcome = "none", !.ret = 0]

\* Entry of __read/__write: size_t remaining = size; while (remaining > 0)
EnterLoop(rec, loop, api, tgt, size, start) ==
    [rec EXCEPT !.pc = IF size > 0 THEN loop ELSE "post",
                !.api = api, !.tgt = tgt, !.size = size, !.remaining = size,
                !.start = start, !.rets = <<>>, !.outcome = "none", !.ret = 0]

\* Faulty variant of Thrown: on a spawned thread the exception is swallowed
\* and run() goes on to the handler call
ThrownSwallowed(t, rec) ==
    [rec EXCEPT !.pc = IF t \in Callers THEN "idle" ELSE "invoke",
                !.outcome = "throw"]

\* A thrown std::runtime_error leaves the API call. On a caller thread the
\* caller sees the exception and goes on; on a spawned thread (in run() or in
\* a call made by a handler) it unwinds run() and the thread ends.
Thrown(t, rec) ==
    [rec EXCEPT !.pc = IF t \in Callers THEN "idle" ELSE "threw",
                !.outcome = "throw"]

\* Faulty variant of LoopStep: the loop gives up after the first underlying call
LoopStepOnce(t, rec, loop, ret) ==
    LET r1 == [rec EXCEPT !.rets = Append(@, ret)] IN
    IF ret = 0 THEN [r1 EXCEPT !.pc = "post"]
    ELSE IF ret < 0 THEN Thrown(t, r1)
    ELSE [r1 EXCEPT !.remaining = @ - ret, !.pc = "post"]

\* Faulty variant of LoopStep: a zero result does not leave the loop
LoopStepNoBreak(t, rec, loop, ret) ==
    LET r1 == [rec EXCEPT !.rets = Append(@, ret)] IN
    IF ret < 0 THEN Thrown(t, r1)
    ELSE [r1 EXCEPT !.remaining = @ - ret,
                    !.pc = IF rec.remaining - ret > 0 THEN loop ELSE "post"]

\* Faulty variant of LoopStep: a negative result leaves the loop like a zero one
LoopStepErrBreak(t, rec, loop, ret) ==
    LET r1 == [rec EXCEPT !.rets = Append(@, ret)] IN
    IF ret <= 0 THEN [r1 EXCEPT !.pc = "post"]
    ELSE [r1 EXCEPT !.remaining = @ - ret,
                    !.pc = IF rec.remaining - ret > 0 THEN loop ELSE "post"]

\* One iteration of the loop body after the underlying call returned ret:
\*   if (ret == 0) break; else if (ret < 0) throw; remaining -= ret;
\* followed by the loop test.
LoopStep(t, rec, loop, ret) ==
    LET r1 == [rec EXCEPT !.rets = Append(@, ret)] IN
    IF ret = 0 THEN [r1 EXCEPT !.pc = "post"]
    ELSE IF ret < 0 THEN Thrown(t, r1)
    ELSE [r1 EXCEPT !.remaining = @ - ret,
                    !.pc = IF rec.remaining - ret > 0 THEN loop ELSE "post"]

\* Faulty variant of LoopResult: the requested size is returned
LoopResultRequested(rec) == rec.size

\* return (size-remaining);
LoopResult(rec) == ToInt(rec.size - rec.remaining, Unit(rec.tgt))

\* Faulty variant of Store: the bytes land at the start of the buffer,
\* whatever was transferred before
StoreAtStart(region, off, ret, src, from) ==
    [i \in DOMAIN region |->
        IF 0 < i /\ i <= ret THEN src[from + i] ELSE region[i]]

\* ::read stores ret bytes of the source at buffer + (size-remaining)
Store(region, off, ret, src, from) ==
    [i \in DOMAIN region |->
        IF off < i /\ i <= off + ret THEN src[from + (i - off)] ELSE region[i]]

\* __read: one underlying ::read and the loop body
sys_read(t) ==
    /\ th[t].pc = "__read"
    /\ LET rec == th[t]
           off == rec.size - rec.remaining
       IN \E ret \in ReadResults(rec.remaining, Len(input) - rpos) :
            /\ th' = [th EXCEPT ![t] = LoopStep(t, rec, "__read", ret)]
            /\ IF ret > 0
               THEN /\ mem' = [mem EXCEPT ![rec.tgt] = Store(@, off, ret, input, rpos)]
                    /\ rpos' = rpos + ret
               ELSE UNCHANGED <<mem, rpos>>
    /\ UNCHANGED <<lock_, runner, input, sink, log, ncalls>>

\* __write: one underlying ::write and the loop body
sys_write(t) ==
    /\ th[t].pc = "__write"
    /\ LET rec == th[t]
           off == rec.size - rec.remaining
       IN \E ret \in WriteResults(rec.remaining, SinkCap - Len(sink)) :
            /\ th' = [th EXCEPT ![t] = LoopStep(t, rec, "__write", ret)]
            /\ IF ret > 0
               THEN sink' = sink \o SubSeq(mem[rec.tgt], off + 1, off + ret)
               ELSE UNCHANGED sink
    /\ UNCHANGED <<lock_, runner, mem, input, rpos, log, ncalls>>

\* ---------------------------------------------------- synchronous methods
\* Where a thread stands inside startAsyncOperation: before the store of
\* size_, of the handler, of the target, of the mode, and before start().
StagePcs == {"stage", "store_handler", "store_buffer", "store_mode", "start"}

\* Asynchronous operations requested so far: the threads created and the
\* starts under way.
Requested ==
    Cardinality({w \in Workers : th[w].pc # "unborn"})
    + Cardinality({t \in Threads : th[t].pc \in {"alock"} \cup StagePcs})

\* A thread may issue an API call when it is a caller between calls or a
\* spawned thread inside a completion handler.
CanCall(t) ==
    /\ ncalls < MaxCalls
    /\ \/ t \in Callers /\ th[t].pc = "idle"
       \/ t \in Workers /\ th[t].pc = "handler"

\* The call is over; what it was and how it ended stays with the thread
\* until its next call.
Returned(t, rec, outcome, ret) ==
    [rec EXCEPT !.pc = Home(t), !.outcome = outcome, !.ret = ret]

\* Faulty variant of InvalidArgument: the zero-capacity case is not tested
InvalidArgumentNoZero(b, size) == size > getSize(b)

\* if (b->getSize() == 0 || size > b->getSize())
InvalidArgument(b, size) == getSize(b) = 0 \/ size > getSize(b)

\* return -1; (the call is over, nothing else was touched)
Rejected(t, rec, api, b, size) ==
    Returned(t, [rec EXCEPT !.api = api, !.tgt = b, !.size = size,
                            !.remaining = 0, !.start = 0, !.rets = <<>>],
             "value", -1)

\* Arrival at lock_.lock()
AtLock(rec, api, p, size) ==
    [rec EXCEPT !.pc = "lock", !.api = api, !.tgt = p, !.size = size,
                !.remaining = 0, !.start = 0, !.rets = <<>>,
                !.outcome = "none", !.ret = 0]

\* int PosixDescriptor::read (Buffer* b, size_t size), up to lock_.lock()
read_Buffer(t, b, size) ==
    /\ CanCall(t)
    /\ ncalls' = ncalls + 1
    /\ th' = [th EXCEPT ![t] =
                IF InvalidArgument(b, size)
                THEN Rejected(t, @, "read_Buffer", b, size)
                ELSE AtLock(@, "read_Buffer", b, size)]
    /\ UNCHANGED <<lock_, runner, mem, input, rpos, sink, log>>

\* int PosixDescriptor::read (void* p, size_t size), up to lock_.lock()
read_void(t, p, size) ==
    /\ CanCall(t)
    /\ ncalls' = ncalls + 1
    /\ th' = [th EXCEPT ![t] = AtLock(@, "read_void", p, size)]
    /\ UNCHANGED <<lock_, runner, mem, input, rpos, sink, log>>

\* lock_.lock(); int ret = __read(...)  (blocks while the lock is held)
read_lock(t) ==
    /\ th[t].pc = "lock"
    /\ lock_ = FALSE
    /\ lock_' = TRUE
    /\ th' = [th EXCEPT ![t] = EnterLoop(@, "__read", @.api, @.tgt, @.size, rpos)]
    /\ UNCHANGED <<runner, mem, input, rpos, sink, log, ncalls>>

\* lock_.unlock(); return ret;
read_return(t) ==
    /\ th[t].pc = "post"
    /\ th[t].api \in {"read_Buffer", "read_void"}
    /\ lock_' = FALSE
    /\ th' = [th EXCEPT ![t] = Returned(t, @, "value", LoopResult(@))]
    /\ UNCHANGED <<runner, mem, input, rpos, sink, log, ncalls>>

\* int PosixDescriptor::write (Buffer* b, size_t size), up to the loop
write_Buffer(t, b, size) ==
    /\ CanCall(t)
    /\ ncalls' = ncalls + 1
    /\ th' = [th EXCEPT ![t] =
                IF InvalidArgument(b, size)
                THEN Rejected(t, @, "write_Buffer", b, size)
                ELSE EnterLoop(@, "__write", "write_Buffer", b, size, Len(sink))]
    /\ UNCHANGED <<lock_, runner, mem, input, rpos, sink, log>>

\* int PosixDescriptor::write (const void* p, size_t size), up to the loop
write_void(t, p, size) ==
    /\ CanCall(t)
    /\ ncalls' = ncalls + 1
    /\ th' = [th EXCEPT ![t] = EnterLoop(@, "__write", "write_void", p, size, Len(sink))]
    /\ UNCHANGED <<lock_, runner, mem, input, rpos, sink, log>>

\* int PosixDescriptor::write (const std::string& s): s is the string made of
\* the first size bytes of region str, so s.size() = size.
write_string(t, str, size) ==
    /\ CanCall(t)
    /\ ncalls' = ncalls + 1
    /\ th' = [th EXCEPT ![t] = EnterLoop(@, "__write", "write_string", str, size, Len(sink))]
    /\ UNCHANGED <<lock_, runner, mem, input, rpos, sink, log>>

\* return __write(...);
write_return(t) ==
    /\ th[t].pc = "post"
    /\ th[t].api \in {"write_Buffer", "write_void", "write_string"}
    /\ th' = [th EXCEPT ![t] = Returned(t, @, "value", LoopResult(@))]
    /\ UNCHANGED <<lock_, runner, mem, input, rpos, sink, log, ncalls>>

\* --------------------------------------------------- asynchronous methods
\* async_read / async_write (buffer shape): the call arrives at lock_.lock()
\* with its arguments; the handler is the one of this call.
async_Buffer(t, read_operation, b, size) ==
    /\ CanCall(t)
    /\ Requested < Cardinality(Workers)
    /\ ncalls' = ncalls + 1
    /\ th' = [th EXCEPT ![t] =
                [AtLock(@, IF read_operation THEN "async_read" ELSE "async_write", b, size)
                    EXCEPT !.pc = "alock", !.aread = read_operation,
                           !.ah = BuffHandler(Requested + 1)]]
    /\ UNCHANGED <<lock_, runner, mem, input, rpos, sink, log>>

\* async_read / async_write (raw shape)
async_void(t, read_operation, p, size) ==
    /\ CanCall(t)
    /\ Requested < Cardinality(Workers)
    /\ ncalls' = ncalls + 1
    /\ th' = [th EXCEPT ![t] =
                [AtLock(@, IF read_operation THEN "async_read" ELSE "async_write", p, size)
                    EXCEPT !.pc = "alock", !.aread = read_operation,
                           !.ah = VoidHandler(Requested + 1)]]
    /\ UNCHANGED <<lock_, runner, mem, input, rpos, sink, log>>

\* lock_.lock() of async_read / async_write: the starting thread takes the lock
async_lock(t) ==
    /\ th[t].pc = "alock"
    /\ lock_ = FALSE
    /\ lock_' = TRUE
    /\ th' = [th EXCEPT ![t] = [@ EXCEPT !.pc = "stage"]]
    /\ UNCHANGED <<runner, mem, input, rpos, sink, log, ncalls>>

\* The thread start() creates for the operation that passes handler h.
WorkerOf(h) == <<"worker", h[2]>>

\* if (read_operation) async_operation_ = READ_BUFFER; else ... = WRITE_BUFFER;
BufferMode(read_operation) == IF read_operation THEN READ_BUFFER ELSE WRITE_BUFFER

\* if (read_operation) async_operation_ = READ_VOID; else ... = WRITE_VOID;
VoidMode(read_operation) == IF read_operation THEN READ_VOID ELSE WRITE_VOID

\* The slot and the mode of the overload of startAsyncOperation thread t is in.
StagedSlot(t) == IF th[t].ah[1] = "buff_handler" THEN "buff" ELSE "void"

StagedMode(t) ==
    IF StagedSlot(t) = "buff" THEN BufferMode(th[t].aread)
    ELSE VoidMode(th[t].aread)

\* AsyncThread::startAsyncOperation(bool, void (*)(Buffer*, size_t), Buffer*, size_t),
\* entered with the lock held: size_ = size;
\* The stores of startAsyncOperation are steps of their own: run() loads
\* what they store without holding the lock (lines 110-114).
startAsyncOperation_Buffer(t) ==
    /\ th[t].pc = "stage"
    /\ StagedSlot(t) = "buff"
    /\ size_' = th[t].size
    /\ th' = [th EXCEPT ![t] = [@ EXCEPT !.pc = "store_handler"]]
    /\ UNCHANGED <<lock_, async_operation_, buff_handler_, buff_buffer_,
                   void_handler_, void_buffer_, mem, input, rpos, sink, log,
                   ncalls>>

\* AsyncThread::startAsyncOperation(bool, void (*)(void*, size_t), void*, size_t),
\* entered with the lock held: size_ = size;
startAsyncOperation_void(t) ==
    /\ th[t].pc = "stage"
    /\ StagedSlot(t) = "void"
    /\ size_' = th[t].size
    /\ th' = [th EXCEPT ![t] = [@ EXCEPT !.pc = "store_handler"]]
    /\ UNCHANGED <<lock_, async_operation_, buff_handler_, buff_buffer_,
                   void_handler_, void_buffer_, mem, input, rpos, sink, log,
                   ncalls>>

\* buff_handler_ = handler; / void_handler_ = handler;
store_handler(t) ==
    /\ th[t].pc = "store_handler"
    /\ IF StagedSlot(t) = "buff"
       THEN buff_handler_' = th[t].ah /\ UNCHANGED void_handler_
       ELSE void_handler_' = th[t].ah /\ UNCHANGED buff_handler_
    /\ th' = [th EXCEPT ![t] = [@ EXCEPT !.pc = "store_buffer"]]
    /\ UNCHANGED <<lock_, async_operation_, size_, buff_buffer_, void_buffer_,
                   mem, input, rpos, sink, log, ncalls>>

\* buff_buffer_ = buff; / void_buffer_ = buff;
store_buffer(t) ==
    /\ th[t].pc = "store_buffer"
    /\ IF StagedSlot(t) = "buff"
       THEN buff_buffer_' = th[t].tgt /\ UNCHANGED void_buffer_
       ELSE void_buffer_' = th[t].tgt /\ UNCHANGED buff_buffer_
    /\ th' = [th EXCEPT ![t] = [@ EXCEPT !.pc = "store_mode"]]
    /\ UNCHANGED <<lock_, async_operation_, size_, buff_handler_, void_handler_,
                   mem, input, rpos, sink, log, ncalls>>

\* if (read_operation) async_operation_ = READ_...; else async_operation_ = WRITE_...;
store_mode(t) ==
    /\ th[t].pc = "store_mode"
    /\ async_operation_' = StagedMode(t)
    /\ th' = [th EXCEPT ![t] = [@ EXCEPT !.pc = "start"]]
    /\ UNCHANGED <<lock_, size_, buff_handler_, buff_buffer_, void_handler_,
                   void_buffer_, mem, input, rpos, sink, log, ncalls>>

\* start(): run() begins on a new thread; the call returns to the starter.
start(t) ==
    /\ th[t].pc = "start"
    /\ th' = [th EXCEPT
                ![t] = Returned(t, @, "none", 0),
                ![WorkerOf(th[t].ah)] =
                    [Blank("run") EXCEPT !.job =
                        [mode |-> StagedMode(t), h |-> th[t].ah,
                         tgt |-> th[t].tgt, size |-> th[t].size, by |-> t]]]
    /\ UNCHANGED <<lock_, runner, mem, input, rpos, sink, log, ncalls>>

\* Faulty variant of run_dispatch: with no mode staged, run() goes on to the
\* unlock and the handler call as after an empty transfer
run_dispatchNoThrow(w) ==
    /\ th[w].pc = "run"
    /\ th' = [th EXCEPT ![w] =
         IF async_operation_ = READ_BUFFER
         THEN EnterLoop(@, "__read", "run", buff_buffer_, size_, rpos)
         ELSE IF async_operation_ = READ_VOID
         THEN EnterLoop(@, "__read", "run", void_buffer_, size_, rpos)
         ELSE IF async_operation_ = WRITE_BUFFER
         THEN EnterLoop(@, "__write", "run", buff_buffer_, size_, Len(sink))
         ELSE IF async_operation_ = WRITE_VOID
         THEN EnterLoop(@, "__write", "run", void_buffer_, size_, Len(sink))
         ELSE [@ EXCEPT !.pc = "post", !.api = "run"]]
    /\ UNCHANGED <<lock_, runner, mem, input, rpos, sink, log, ncalls>>

\* run(), the dispatch: the if / else if chain on async_operation_, which
\* calls __read or __write with the staged target and size_, or throws.
run_dispatch(w) ==
    /\ th[w].pc = "run"
    /\ th' = [th EXCEPT ![w] =
         IF async_operation_ = READ_BUFFER
         THEN EnterLoop(@, "__read", "run", buff_buffer_, size_, rpos)
         ELSE IF async_operation_ = READ_VOID
         THEN EnterLoop(@, "__read", "run", void_buffer_, size_, rpos)
         ELSE IF async_operation_ = WRITE_BUFFER
         THEN EnterLoop(@, "__write", "run", buff_buffer_, size_, Len(sink))
         ELSE IF async_operation_ = WRITE_VOID
         THEN EnterLoop(@, "__write", "run", void_buffer_, size_, Len(sink))
         ELSE [@ EXCEPT !.pc = "threw", !.api = "run", !.outcome = "throw"]]
    /\ UNCHANGED <<lock_, runner, mem, input, rpos, sink, log, ncalls>>

\* n = ...; des_->lock_.unlock();  (__read / __write has returned: of its
\* locals only the result, now in n, is left)
run_unlock(w) ==
    /\ th[w].pc = "post"
    /\ th[w].api = "run"
    /\ lock_' = FALSE
    /\ th' = [th EXCEPT ![w] =
                [@ EXCEPT !.pc = "invoke", !.n = LoopResult(th[w]),
                          !.remaining = 0, !.start = 0, !.rets = <<>>]]
    /\ UNCHANGED <<runner, mem, input, rpos, sink, log, ncalls>>

\* Lines 110-114 of run() are executed without the lock: each load of
\* async_operation_, of the handler and of the target is a step of its own,
\* and steps of other threads fit between them.

\* if ((async_operation_ == READ_BUFFER) || ...: the first comparison
run_test_read(w) ==
    /\ th[w].pc = "invoke"
    /\ th' = [th EXCEPT ![w] =
                IF async_operation_ = READ_BUFFER
                THEN [@ EXCEPT !.pc = "load_handler", !.slot = "buff"]
                ELSE [@ EXCEPT !.pc = "test_write"]]
    /\ UNCHANGED <<lock_, runner, mem, input, rpos, sink, log, ncalls>>

\* ... || (async_operation_ == WRITE_BUFFER)): the second comparison, made
\* when the first failed
run_test_write(w) ==
    /\ th[w].pc = "test_write"
    /\ th' = [th EXCEPT ![w] =
                [@ EXCEPT !.pc = "load_handler",
                          !.slot = IF async_operation_ = WRITE_BUFFER
                                   THEN "buff" ELSE "void"]]
    /\ UNCHANGED <<lock_, runner, mem, input, rpos, sink, log, ncalls>>

\* The load of buff_handler_ / void_handler_, the function to call (it is
\* evaluated before the arguments).
run_load_handler(w) ==
    /\ th[w].pc = "load_handler"
    /\ th' = [th EXCEPT ![w] =
                [@ EXCEPT !.pc = "call",
                          !.fn = IF th[w].slot = "buff" THEN buff_handler_
                                 ELSE void_handler_]]
    /\ UNCHANGED <<lock_, runner, mem, input, rpos, sink, log, ncalls>>

\* buff_handler_(buff_buffer_, n); else void_handler_(void_buffer_, n);
\* h is the handler loaded, tgt the target loaded.
Invocation(w, slot, h, tgt, n) ==
    [op |-> w, slot |-> slot, h |-> h, tgt |-> tgt, n |-> ToSize(n)]

\* run(), the load of the target and the call of the handler. Calling
\* through a slot that held no handler ends the thread.
run_invoke(w) ==
    /\ th[w].pc = "call"
    /\ LET call == Invocation(w, th[w].slot, th[w].fn,
                              IF th[w].slot = "buff" THEN buff_buffer_
                              ELSE void_buffer_,
                              th[w].n)
       IN /\ log' = Append(log, call)
          /\ th' = [th EXCEPT ![w] =
                      [@ EXCEPT !.pc = IF call.h = NullH THEN "crashed" ELSE "handler"]]
    /\ UNCHANGED <<lock_, runner, mem, input, rpos, sink, ncalls>>

\* The handler returns to run().
handler_return(w) ==
    /\ w \in Workers
    /\ th[w].pc = "handler"
    /\ th' = [th EXCEPT ![w] = [@ EXCEPT !.pc = "reset"]]
    /\ UNCHANGED <<lock_, runner, mem, input, rpos, sink, log, ncalls>>

\* async_operation_ = NONE; and run() returns
run_reset(w) ==
    /\ th[w].pc = "reset"
    /\ async_operation_' = NONE
    /\ th' = [th EXCEPT ![w] = [@ EXCEPT !.pc = "end"]]
    /\ UNCHANGED <<lock_, size_, buff_handler_, buff_buffer_, void_handler_,
                   void_buffer_, mem, input, rpos, sink, log, ncalls>>

\* ------------------------------------------------------------- behaviours
\* Sizes passed with a Buffer (one more than its capacity included) and with
\* a raw region or a string.
BufferSizes == 0..(MaxSize + 1)
RawSizes    == 0..MaxSize

\* The steps of thread t, its API calls taking their sizes from BS (with a
\* Buffer) and RS (with a raw region, a string, or an asynchronous start).
Sync(t, BS, RS) ==
    \/ \E b \in Buffers, size \in BS : read_Buffer(t, b, size)
    \/ \E p \in RawPtrs, size \in RS : read_void(t, p, size)
    \/ read_lock(t)
    \/ sys_read(t)
    \/ read_return(t)
    \/ \E b \in Buffers, size \in BS : write_Buffer(t, b, size)
    \/ \E p \in RawPtrs, size \in RS : write_void(t, p, size)
    \/ \E str \in Strings, size \in RS : write_string(t, str, size)
    \/ sys_write(t)
    \/ write_return(t)

Async(t, RS) ==
    \/ \E r \in BOOLEAN, b \in Buffers :
          \E size \in {z \in RS : z <= getSize(b)} : async_Buffer(t, r, b, size)
    \/ \E r \in BOOLEAN, p \in RawPtrs, size \in RS : async_void(t, r, p, size)
    \/ async_lock(t)
    \/ startAsyncOperation_Buffer(t)
    \/ startAsyncOperation_void(t)
    \/ store_handler(t)
    \/ store_buffer(t)
    \/ store_mode(t)
    \/ start(t)
    \/ run_dispatch(t)
    \/ run_unlock(t)
    \/ run_test_read(t)
    \/ run_test_write(t)
    \/ run_load_handler(t)
    \/ run_invoke(t)
    \/ handler_return(t)
    \/ run_reset(t)

\* Synchronous calls only, of every size: the caller thread alone.
NextSync == \E t \in Callers : Sync(t, BufferSizes, RawSizes)

SpecSync == Init /\ [][NextSync]_vars

\* All threads, synchronous and asynchronous calls; transfers of the full
\* size, and with a Buffer also the sizes 0 and capacity + 1.
ConcSizes == {MaxSize}

Next ==
    \E t \in Threads :
        \/ Sync(t, {0, MaxSize, MaxSize + 1}, ConcSizes)
        \/ Async(t, ConcSizes)

Spec == Init /\ [][Next]_vars

\* ------------------------------------------------- loopback descriptor
\* fd_ is a loopback (a pipe, a socket pair): the bytes ::write put into it
\* are the bytes ::read gets out of it, in the same order. At first it is
\* empty. The regions written from hold a sequence over the alphabet, the
\* region read into holds other bytes.
Alphabet == 1..AlphabetSize

LoopbackSources == RawPtrs \cup Strings

LoopbackInit ==
    /\ lock_ = FALSE
    /\ async_operation_ = NONE
    /\ size_ = 0
    /\ buff_handler_ = NullH
    /\ buff_buffer_ = Null
    /\ void_handler_ = NullH
    /\ void_buffer_ = Null
    /\ \E d \in [1..MaxSize -> Alphabet] :
          mem = [r \in Regions |-> IF r \in LoopbackSources THEN d ELSE InitMem[r]]
    /\ input = <<>>
    /\ rpos = 0
    /\ sink = <<>>
    /\ th = [t \in Threads |-> IF t \in Callers THEN Blank("idle") ELSE Blank("unborn")]
    /\ log = <<>>
    /\ ncalls = 0

\* The bytes written become readable.
loopback ==
    /\ input # sink
    /\ input' = sink
    /\ UNCHANGED <<lock_, runner, mem, rpos, sink, th, log, ncalls>>

\* The second half of a round trip: the thread's last call wrote the whole
\* of its size into the drained loopback, the bytes are readable, and it now
\* reads as many into the Buffer.
RoundTripRead(t) ==
    /\ th[t].api \in {"write_void", "write_string"}
    /\ th[t].outcome = "value"
    /\ th[t].ret = th[t].size
    /\ th[t].start = rpos
    /\ input = sink
    /\ \E b \in Buffers : getSize(b) > 0 /\ read_Buffer(t, b, th[t].size)

NextLoopback ==
    \/ loopback
    \/ \E t \in Callers :
          \/ \E p \in RawPtrs, size \in RawSizes : write_void(t, p, size)
          \/ \E str \in Strings, size \in RawSizes : write_string(t, str, size)
          \/ sys_write(t)
          \/ write_return(t)
          \/ RoundTripRead(t)
          \/ read_lock(t)
          \/ sys_read(t)
          \/ read_return(t)

SpecLoopback == LoopbackInit /\ [][NextLoopback]_vars

\* ------------------------------------------------------- wide transfers
\* Reads, synchronous and asynchronous, into the wide raw region, of every
\* size of 0..WideLen cells of WideUnit bytes, from a source that delivers as
\* much.
WideInit ==
    /\ lock_ = FALSE
    /\ async_operation_ = NONE
    /\ size_ = 0
    /\ buff_handler_ = NullH
    /\ buff_buffer_ = Null
    /\ void_handler_ = NullH
    /\ void_buffer_ = Null
    /\ mem = InitMem
    /\ input = [i \in 1..WideLen |-> 40 + i]
    /\ rpos = 0
    /\ sink = <<>>
    /\ th = [t \in Threads |-> IF t \in Callers THEN Blank("idle") ELSE Blank("unborn")]
    /\ log = <<>>
    /\ ncalls = 0

WideSizes == 0..WideLen

NextWide ==
    \E t \in Threads :
        \/ \E p \in WidePtrs, size \in WideSizes : read_void(t, p, size)
        \/ read_lock(t)
        \/ sys_read(t)
        \/ read_return(t)
        \/ \E p \in WidePtrs, size \in WideSizes : async_void(t, TRUE, p, size)
        \/ async_lock(t)
        \/ startAsyncOperation_void(t)
        \/ store_handler(t)
        \/ store_buffer(t)
        \/ store_mode(t)
        \/ start(t)
        \/ run_dispatch(t)
        \/ run_unlock(t)
        \/ run_test_read(t)
        \/ run_test_write(t)
        \/ run_load_handler(t)
        \/ run_invoke(t)
        \/ handler_return(t)
        \/ run_reset(t)

SpecWide == WideInit /\ [][NextWide]_vars

\* ================================================================== claims
InLoop(t) == th[t].pc \in {"__read", "__write"}

SyncReads == {"read_Buffer", "read_void"}

\* The thread's last call is over (it returned or threw).
Ended(t) == th[t].outcome # "none" /\ ~InLoop(t) /\ th[t].pc \notin {"lock", "post"}

AllPositive(rets) == \A i \in DOMAIN rets : rets[i] > 0

RECURSIVE SumPositive(_)
SumPositive(rets) ==
    IF rets = <<>> THEN 0
    ELSE (IF Head(rets) > 0 THEN Head(rets) ELSE 0) + SumPositive(Tail(rets))

Capacity(r) == IF r \in Buffers THEN getSize(r) ELSE RegionLen(r)

\* C1 (as claimed): at most one thread is inside a transfer loop (__read or
\* __write) of the descriptor at any time.
C1_MutualExclusion == Cardinality({t \in Threads : InLoop(t)}) <= 1

\* What a synchronous read that met only positive partial results must have
\* done: returned its size, with the target holding the source bytes in order.
FullRead(t) ==
    /\ th[t].outcome = "value"
    /\ th[t].ret = th[t].size
    /\ \A i \in 1..th[t].size : mem[th[t].tgt][i] = input[th[t].start + i]

\* C2 (as claimed): every synchronous read of a size not above the capacity,
\* whose underlying reads all returned positive counts, returns the size and
\* fills the target with the source bytes in order.
C2_FullReadAnyCapacity ==
    \A t \in Threads :
        (/\ th[t].api \in SyncReads
         /\ Ended(t)
         /\ th[t].size <= Capacity(th[t].tgt)
         /\ AllPositive(th[t].rets))
        => FullRead(t)

\* C2 (amended): the same for a target of nonzero capacity; a read into a
\* zero-capacity Buffer is rejected even with size 0.
C2_FullRead ==
    \A t \in Threads :
        (/\ th[t].api \in SyncReads
         /\ Ended(t)
         /\ Capacity(th[t].tgt) > 0
         /\ th[t].size <= Capacity(th[t].tgt)
         /\ AllPositive(th[t].rets))
        => FullRead(t)

\* A read of the largest size, served in more than one partial result.
C2_Witness ==
    \E t \in Threads :
        /\ th[t].api \in SyncReads /\ Ended(t)
        /\ th[t].size = MaxSize /\ Len(th[t].rets) >= 2
        /\ AllPositive(th[t].rets) /\ th[t].ret = MaxSize

\* C3: a zero result of the underlying read is the last underlying call of
\* the loop, and a synchronous read that met it returns, without error, the
\* sum of the positive results before it, which is less than the size.
C3_ShortRead ==
    \A t \in Threads :
        th[t].api \in SyncReads =>
            /\ \A i \in DOMAIN th[t].rets :
                   th[t].rets[i] = 0 => i = Len(th[t].rets) /\ ~InLoop(t)
            /\ (Ended(t) /\ th[t].rets # <<>> /\ th[t].rets[Len(th[t].rets)] = 0)
               => /\ th[t].outcome = "value"
                  /\ th[t].ret = SumPositive(th[t].rets)
                  /\ th[t].ret < th[t].size
                  /\ th[t].ret = Len(input) - th[t].start

\* A read that got some bytes, then end-of-stream.
C3_Witness ==
    \E t \in Threads :
        /\ th[t].api \in SyncReads /\ Ended(t)
        /\ Len(th[t].rets) >= 2 /\ th[t].rets[Len(th[t].rets)] = 0
        /\ th[t].ret >= 1

\* C4: the step in which read(Buffer*, size) or write(Buffer*, size) is called
\* with a zero-capacity Buffer or a size above the capacity is the whole call:
\* it returns -1, no underlying call is made, and the lock, the runner, the
\* source, the sink and the memory are left as they were.
C4_InvalidArgument ==
    [][\A t \in Threads :
          (/\ th[t].pc \in {"idle", "handler"}
           /\ th'[t] # th[t]
           /\ th'[t].api \in {"read_Buffer", "write_Buffer"}
           /\ (getSize(th'[t].tgt) = 0 \/ th'[t].size > getSize(th'[t].tgt)))
          => /\ th'[t].pc = Home(t)
             /\ th'[t].outcome = "value"
             /\ th'[t].ret = -1
             /\ th'[t].rets = <<>>
             /\ UNCHANGED <<lock_, runner, mem, rpos, sink>>]_vars

\* A call rejected while an asynchronous operation holds the lock.
C4_Witness ==
    \E t \in Threads :
        /\ th[t].api \in {"read_Buffer", "write_Buffer"} /\ Ended(t)
        /\ th[t].ret = -1 /\ getSize(th[t].tgt) = 0 /\ th[t].size = 0
        /\ lock_ /\ async_operation_ # NONE

\* The handler calls made by the thread of operation w.
CallsOf(w) == {i \in DOMAIN log : log[i].op = w}

\* C9: a negative result of the underlying read or write is the last
\* underlying call of its loop; the loop is left by a throw and no byte count
\* is returned, whatever was transferred before.
C9_IOFailure ==
    \A t \in Threads :
        \A i \in DOMAIN th[t].rets :
            th[t].rets[i] < 0 =>
                /\ i = Len(th[t].rets)
                /\ ~InLoop(t) /\ th[t].pc # "post"
                /\ th[t].outcome = "throw"
                /\ th[t].ret = 0
                /\ th[t].api = "run" => th[t].n = 0 /\ CallsOf(t) = {}

\* A loop that transferred a byte and then met a failure.
C9_Witness ==
    \E t \in Threads :
        /\ Len(th[t].rets) = 2 /\ th[t].rets[1] > 0 /\ th[t].rets[2] < 0
        /\ th[t].outcome = "throw"

\* C5 (as claimed): an asynchronous operation calls a handler at most once,
\* and exactly once when its run() ends; the call passes the handler and the
\* target staged for this operation and the count its transfer loop returned.
C5_HandlerOnceAsStaged ==
    \A w \in Workers :
        /\ Cardinality(CallsOf(w)) <= 1
        /\ th[w].pc = "end" => Cardinality(CallsOf(w)) = 1
        /\ \A i \in CallsOf(w) :
              /\ log[i].h = th[w].job.h
              /\ log[i].tgt = th[w].job.tgt
              /\ log[i].n = ToSize(th[w].n)

\* C6 (as claimed, in the form a finite run refutes): the run() of an
\* operation started from inside a completion handler performs its transfer;
\* it ends early only by an I/O failure of the underlying call.
C6_HandlerStartedOperationRuns ==
    \A w \in Workers :
        (th[w].job.by \in Workers /\ th[w].pc = "threw" /\ th[w].api = "run")
        => \E i \in DOMAIN th[w].rets : th[w].rets[i] < 0

\* C7 (as claimed): a buffer-target operation ends by calling the
\* buffer-handler staged with it, a raw-target operation by calling the
\* raw-handler staged with it.
C7_MatchingHandler ==
    \A i \in DOMAIN log :
        LET job == th[log[i].op].job IN
        IF job.mode \in {READ_BUFFER, WRITE_BUFFER}
        THEN log[i].slot = "buff" /\ log[i].h = job.h
        ELSE log[i].slot = "void" /\ log[i].h = job.h

\* C8 (as claimed): the mode is none when no operation was started or every
\* started one has completed; and the mode staged for an operation stays
\* until that operation's run() dispatches on it.
C8_ModeNoneWhenIdle ==
    /\ ((\A w \in Workers : th[w].pc \in {"unborn", "end"})
        /\ (\A t \in Threads : th[t].pc \notin {"alock"} \cup StagePcs))
       => async_operation_ = NONE
    /\ \A w \in Workers : th[w].pc = "run" => async_operation_ = th[w].job.mode

\* C10 (as claimed): startAsyncOperation entered while the mode is not none
\* reports a violation and leaves what is staged as it is.
C10_StartRefusedWhenBusy ==
    [][\A t \in Threads :
          (th[t].pc = "stage" /\ th'[t].pc # "stage" /\ async_operation_ # NONE)
          => (th'[t].outcome = "throw" /\ UNCHANGED runner)]_vars

\* C11: the step run() takes from its dispatch point with no mode staged is a
\* throw: no underlying read or write is made (source, sink and memory are
\* untouched, no result is recorded), no handler is called, n is not set, and
\* lock_ is left as it was.
C11_DispatchOnNone ==
    [][\A w \in Workers :
          (th[w].pc = "run" /\ async_operation_ = NONE /\ th'[w] # th[w])
          => /\ th'[w].pc = "threw"
             /\ th'[w].outcome = "throw"
             /\ th'[w].rets = <<>>
             /\ th'[w].n = 0
             /\ UNCHANGED <<lock_, runner, mem, rpos, sink, log>>]_vars

\* A run() that found no mode at its dispatch point and threw, the lock taken
\* for its operation still held.
C11_Witness ==
    \E w \in Workers :
        /\ th[w].pc = "threw" /\ th[w].api = "run" /\ th[w].rets = <<>>
        /\ async_operation_ = NONE /\ lock_ /\ CallsOf(w) = {}

\* C12: when an underlying call of the transfer of run() returned a negative
\* result, run() was left by the exception: the thread is not at, and never
\* comes to, the handler call, and no handler call of this operation exists.
C12_AsyncFailureNotLost ==
    \A w \in Workers :
        (th[w].api = "run" /\ \E i \in DOMAIN th[w].rets : th[w].rets[i] < 0)
        => /\ th[w].pc = "threw"
           /\ th[w].outcome = "throw"
           /\ \A i \in DOMAIN log : log[i].op # w

\* An asynchronous transfer that moved a byte and then failed.
C12_Witness ==
    \E w \in Workers :
        /\ th[w].api = "run" /\ th[w].pc = "threw"
        /\ th[w].rets = <<1, -1>>

\* C13: on a loopback, a read of L bytes that follows a complete write of a
\* sequence of L bytes and ends without failure returns L, and the first L
\* bytes of its target are the sequence written, whatever the sequence and
\* however the underlying writes and reads split the transfer.
C13_RoundTrip ==
    \A t \in Callers :
        (th[t].api = "read_Buffer" /\ Ended(t) /\ th[t].outcome = "value")
        => /\ th[t].ret = th[t].size
           /\ \A src \in LoopbackSources :
                 \A i \in 1..th[t].size : mem[th[t].tgt][i] = mem[src][i]

\* A round trip of a sequence of two different bytes, read back in two parts.
C13_Witness ==
    \E t \in Callers :
        /\ th[t].api = "read_Buffer" /\ Ended(t) /\ th[t].outcome = "value"
        /\ th[t].size = MaxSize /\ th[t].ret = MaxSize /\ Len(th[t].rets) >= 2
        /\ \E src \in LoopbackSources : mem[src][1] # mem[src][MaxSize]
        /\ input = sink /\ Len(sink) = MaxSize

\* The transfers that run with the lock held: those of the synchronous
\* reads and of run().
HoldsLock(u) == InLoop(u) /\ th[u].api \in SyncReads \cup {"run"}

\* C14 (as claimed): a thread that starts an asynchronous operation never
\* waits for a transfer: it is never at lock_.lock() of async_read /
\* async_write while the transfer of another thread holds the lock; and the
\* underlying calls of the operation are made by the spawned thread only.
C14_StarterNeverBlocks ==
    /\ \A t \in Threads :
          th[t].pc = "alock" => ~(lock_ /\ \E u \in Threads \ {t} : HoldsLock(u))
    /\ \A t \in Threads :
          (th[t].api \in {"async_read", "async_write"}) => th[t].rets = <<>>

\* C15 (as claimed): with synchronous calls only, once a read that took the
\* lock is over, by a returned count or by an I/O failure, the lock is free;
\* so a later read that arrives at lock_.lock() does not find it held.
C15_ReadReleasesLock ==
    \A t \in Callers :
        /\ (th[t].api \in SyncReads /\ Ended(t)) => ~lock_
        /\ th[t].pc = "lock" => ~lock_

SyncWrites == {"write_Buffer", "write_void", "write_string"}

\* The call went into its transfer loop (it was not rejected for its Buffer).
LoopRan(t) ==
    th[t].api \in {"read_Buffer", "write_Buffer"}
        => ~InvalidArgument(th[t].tgt, th[t].size)

\* The k bytes the sink received from the write of thread t are the first k
\* bytes of its source, in order.
SinkReceived(t, k) ==
    /\ Len(sink) >= th[t].start + k
    /\ \A i \in 1..k : sink[th[t].start + i] = mem[th[t].tgt][i]

\* C16: a zero result of the underlying write is the last underlying call of
\* the write loop, and the write that met it after k bytes returns k without
\* error, k < size, the sink holding those k bytes; a write whose underlying
\* calls all returned positive counts returns its size, the sink holding the
\* source bytes in order.
C16_WriteEarlyStop ==
    \A t \in Threads :
        (th[t].api \in SyncWrites /\ LoopRan(t)) =>
            /\ \A i \in DOMAIN th[t].rets :
                   th[t].rets[i] = 0 => i = Len(th[t].rets) /\ ~InLoop(t)
            /\ (Ended(t) /\ th[t].rets # <<>> /\ th[t].rets[Len(th[t].rets)] = 0)
               => /\ th[t].outcome = "value"
                  /\ th[t].ret = SumPositive(th[t].rets)
                  /\ th[t].ret < th[t].size
                  /\ SinkReceived(t, th[t].ret)
            /\ (Ended(t) /\ AllPositive(th[t].rets))
               => /\ th[t].outcome = "value"
                  /\ th[t].ret = th[t].size
                  /\ SinkReceived(t, th[t].size)

\* A write that put one byte into the sink and then found it full.
C16_Witness ==
    \E t \in Threads :
        /\ th[t].api \in SyncWrites /\ Ended(t)
        /\ th[t].rets = <<1, 0>> /\ th[t].ret = 1 /\ th[t].size = MaxSize

\* The thread is in, or has left, a transfer loop of a synchronous call.
HasLoop(t) ==
    /\ th[t].api \in SyncReads \cup SyncWrites
    /\ LoopRan(t)
    /\ th[t].pc # "lock"

\* What holds of the loop's locals between underlying calls and afterwards.
LoopInv(t) ==
    HasLoop(t) =>
        /\ th[t].remaining \in 0..th[t].size
        /\ th[t].remaining = th[t].size - SumPositive(th[t].rets)
        /\ InLoop(t) => th[t].remaining > 0
        /\ Len(th[t].rets) <= th[t].size
        /\ th[t].size = 0 => th[t].rets = <<>> /\ ~InLoop(t)
        /\ (Ended(t) /\ th[t].outcome = "value")
           => /\ th[t].ret \in 0..th[t].size
              /\ th[t].size = 0 => th[t].ret = 0

\* What one underlying call of the loop of thread t does: with off the offset
\* size - remaining and ret its result, a read changes only the bytes
\* off+1..off+ret of its target, a write appends the bytes off+1..off+ret of
\* its source to the sink, both inside 1..size; a positive result makes
\* remaining smaller and never negative.
LoopCall(t) ==
    LET off == th[t].size - th[t].remaining
        ret == th'[t].rets[Len(th'[t].rets)]
        moved == IF ret > 0 THEN ret ELSE 0
    IN  /\ off + th[t].remaining = th[t].size
        /\ ret <= th[t].remaining
        /\ off + moved <= th[t].size
        /\ \A r \in Regions : \A i \in DOMAIN mem[r] :
               (r # th[t].tgt \/ i <= off \/ i > off + moved)
               => mem'[r][i] = mem[r][i]
        /\ th[t].pc = "__read" =>
               /\ sink' = sink
               /\ rpos' = rpos + moved
               /\ \A i \in 1..moved : mem'[th[t].tgt][off + i] = input[rpos + i]
        /\ th[t].pc = "__write" =>
               /\ mem' = mem /\ rpos' = rpos
               /\ sink' = sink \o [i \in 1..moved |-> mem[th[t].tgt][off + i]]
        /\ ret > 0 => th'[t].remaining < th[t].remaining /\ th'[t].remaining >= 0

\* C17: every underlying call of __read and __write works at offset
\* size - remaining with at most remaining bytes and touches no byte outside
\* the first size bytes of its buffer; remaining gets smaller with every
\* positive result, so a loop makes at most size underlying calls and its
\* result is in 0..size; with size 0 no underlying call is made and the
\* result is 0.
C17_LoopInvariant ==
    [][\A t \in Threads :
          /\ LoopInv(t)'
          /\ (InLoop(t) /\ th'[t].rets # th[t].rets) => LoopCall(t)]_vars

\* A transfer of the largest size, ended after as many underlying calls as
\* bytes, each of one byte.
C17_Witness ==
    \E t \in Threads :
        /\ HasLoop(t) /\ Ended(t)
        /\ th[t].size = MaxSize /\ Len(th[t].rets) = MaxSize
        /\ th[t].remaining = 0 /\ th[t].ret = MaxSize

\* The int ret is the number of bytes of units units of region r.
IsByteCount(ret, units, r) ==
    /\ ret >= 0
    /\ ret % Unit(r) = 0
    /\ ret \div Unit(r) = units

\* C18 (as claimed): the int a read returns without I/O failure, and the
\* count run() gets from its transfer and passes to the handler, are the
\* number of bytes transferred and are not negative, whatever the size.
C18_CountIsBytesTransferred ==
    [][/\ \A t \in Threads :
            (/\ th'[t].api \in SyncReads /\ LoopRan(t)' /\ Ended(t)'
             /\ th'[t].outcome = "value")
            => IsByteCount(th'[t].ret, SumPositive(th'[t].rets), th'[t].tgt)
       /\ \A w \in Workers :
            (th[w].api = "run" /\ th[w].pc = "post" /\ th'[w].pc = "invoke")
            => IsByteCount(th'[w].n, SumPositive(th[w].rets), th[w].tgt)
       /\ \A i \in DOMAIN log' :
            log'[i].n[1] = 0 /\ log'[i].n[2] >= 0]_vars

====
